---------------------------- MODULE Spec2Model ----------------------------
(***************************************************************************)
(* A model of PromptGuard's test execution engine: the runner's bounded    *)
(* worker pool (Runner.Run), the per-case pipeline (runSingleTest), the    *)
(* assertion evaluators, the result aggregation and the baseline           *)
(* comparison of the diff command.                                         *)
(*                                                                         *)
(* Units.  Costs and cost thresholds are integers in units of 0.0005 USD.  *)
(* Relevance thresholds are integers in percent (70 is 0.7); a threshold   *)
(* of 0 is Go's zero value, "unset".  The empty string is the tuple <<>>   *)
(* for texts (sequences of one-character strings) and "" for identifiers.  *)
(***************************************************************************)
EXTENDS Integers, Sequences, FiniteSets, Bags, TLC

(***************************************************************************)
(* Bounds of the model.                                                    *)
(***************************************************************************)
\* the largest number of test cases of one run
MaxCases == 3
\* the largest concurrency limit (Options.Parallel) a run is given
MaxParallel == 3
\* the largest cost a provider reports for one completion
MaxCost == 2

VARIABLES
    config,       \* Runner.config: Prompts, Providers, Tests
    options,      \* Runner.options: Parallel, Filters, CIMode
    runPc,        \* where Run is: start, loaded, collecting, returned, error, crashed;
                  \* then compared (runDiff) or reported (runCI)
    promptFiles,  \* Run's promptFiles map, as its key set
    testCases,    \* Run's testCases slice
    wpc,          \* per worker goroutine: spawned, holding, ready, delivered, released, done, panicked
    produced,     \* per worker: the TestResult runSingleTest returned (NoResult before)
    semaphore,    \* number of tokens in the semaphore channel
    wg,           \* the WaitGroup counter
    testResults,  \* the buffered testResults channel, oldest first
    closed,       \* whether testResults has been closed
    results,      \* the Results accumulator of Run
    calls,        \* per worker: completion calls made (history)
    stage,        \* per worker: where runSingleTest returned (history)
    storeWarned,  \* whether metrics.Store failed and the warning was printed
    world,        \* the environments the run's collaborators can give a case
    baselineResults,    \* runDiff: the Results loaded from the baseline file
    baselineComparison, \* runDiff: the report of GenerateBaselineComparison, as lines
    ciExit        \* runCI: the error it returns ("" while it has not returned)

vars == <<config, options, runPc, promptFiles, testCases, wpc, produced, semaphore,
          wg, testResults, closed, results, calls, stage, storeWarned, world,
          baselineResults, baselineComparison, ciExit>>

(***************************************************************************)
(* Values.                                                                 *)
(***************************************************************************)
NoResult == [Status |-> "none"]


(***************************************************************************)
(* Go values of type interface{} (Assertion.Value, AssertionResult.Expected *)
(* and .Actual) are tagged records.                                        *)
(***************************************************************************)
Nil == [kind |-> "nil"]
StringValue(s) == [kind |-> "string", s |-> s]
FloatValue(n) == [kind |-> "float", n |-> n]
\* a []interface{}
ListValue(items) == [kind |-> "list", items |-> items]
\* a map[string]interface{}, of which the model keeps the "required" entry
\* (Nil when the map has none)
MapValue(required) == [kind |-> "map", required |-> required]

(***************************************************************************)
(* Texts: sequences of one-character strings, with the parts of package    *)
(* strings the evaluators use.                                             *)
(***************************************************************************)
UpperLetters == <<"A", "B", "C", "D", "E", "F", "G", "H", "I", "J", "K", "L", "M",
                  "N", "O", "P", "Q", "R", "S", "T", "U", "V", "W", "X", "Y", "Z">>
LowerLetters == <<"a", "b", "c", "d", "e", "f", "g", "h", "i", "j", "k", "l", "m",
                  "n", "o", "p", "q", "r", "s", "t", "u", "v", "w", "x", "y", "z">>

LowerOf(c) ==
    IF \E i \in 1..Len(UpperLetters) : UpperLetters[i] = c
    THEN LowerLetters[CHOOSE i \in 1..Len(UpperLetters) : UpperLetters[i] = c]
    ELSE c

\* strings.ToLower
ToLower(text) == [i \in 1..Len(text) |-> LowerOf(text[i])]

\* strings.Contains
Contains(text, substr) ==
    \E i \in 0..(Len(text) - Len(substr)) :
        SubSeq(text, i + 1, i + Len(substr)) = substr

IsSpace(c) == c \in {" ", "\t", "\n"}

\* strings.Fields: the maximal runs of non-space characters, in order
RECURSIVE FieldsFrom(_, _, _)
FieldsFrom(text, i, word) ==
    IF i > Len(text)
    THEN IF word = <<>> THEN <<>> ELSE <<word>>
    ELSE IF IsSpace(text[i])
         THEN (IF word = <<>> THEN <<>> ELSE <<word>>) \o FieldsFrom(text, i + 1, <<>>)
         ELSE FieldsFrom(text, i + 1, Append(word, text[i]))

Fields(text) == FieldsFrom(text, 1, <<>>)

(***************************************************************************)
(* Package assertions.  Evaluate returns (AssertionResult, error): a       *)
(* record with the result and the error text, "" for a nil error.          *)
(***************************************************************************)
ZeroAssertionResult ==
    [Type |-> "", Expected |-> Nil, Actual |-> Nil, Passed |-> FALSE,
     Score |-> <<0, 1>>, Message |-> <<>>]

EvalOK(r) == [res |-> r, err |-> ""]
EvalErr(e) == [res |-> ZeroAssertionResult, err |-> e]

\* calculateRelevanceScore: <<matches, len(words)>>, the score being their
\* quotient, and 0 when there are no words
calculateRelevanceScore(text, expectedContent) ==
    LET lowered == ToLower(text)
        words == Fields(ToLower(expectedContent))
        matches == Cardinality({i \in 1..Len(words) : Contains(lowered, words[i])})
    IN  IF Len(words) = 0 THEN <<0, 1>> ELSE <<matches, Len(words)>>

\* score >= threshold, the threshold in percent
ScoreAtLeast(score, threshold) == score[1] * 100 >= threshold * score[2]

\* the default relevance threshold, 0.7, in percent
DefaultRelevanceThreshold == 70

\* an evaluator that takes a value that is not a string for no keywords
AnswerRelevanceEvaluateAnyValue(assertion, response) ==
    EvalOK([Type |-> "answer-relevance",
            Expected |-> assertion.Value,
            Actual |-> StringValue(response.Text),
            Passed |-> assertion.Value.kind # "string",
            Score |-> <<0, 1>>,
            Message |-> <<"Relevance score: %.2f (threshold: %.2f)", <<0, 1>>,
                          assertion.Threshold>>])

AnswerRelevanceEvaluate(assertion, response) ==
    IF assertion.Value.kind # "string"
    THEN EvalErr("answer-relevance assertion value must be a string")
    ELSE LET expectedValue == assertion.Value.s
             score == calculateRelevanceScore(response.Text, expectedValue)
             threshold == IF assertion.Threshold = 0
                          THEN DefaultRelevanceThreshold
                          ELSE assertion.Threshold
         IN  EvalOK([Type |-> "answer-relevance",
                     Expected |-> StringValue(expectedValue),
                     Actual |-> StringValue(response.Text),
                     Passed |-> ScoreAtLeast(score, threshold),
                     Score |-> score,
                     Message |-> <<"Relevance score: %.2f (threshold: %.2f)", score, threshold>>])

\* a cost evaluator that fails a cost equal to the threshold
CostEvaluateStrict(assertion, response) ==
    LET threshold == assertion.Threshold
    IN  EvalOK([Type |-> "cost",
                Expected |-> FloatValue(threshold),
                Actual |-> FloatValue(response.Cost),
                Passed |-> response.Cost < threshold,
                Score |-> <<0, 1>>,
                Message |-> <<"Cost: $%.4f (threshold: $%.4f)", response.Cost, threshold>>])

CostEvaluate(assertion, response) ==
    LET threshold == assertion.Threshold
    IN  EvalOK([Type |-> "cost",
                Expected |-> FloatValue(threshold),
                Actual |-> FloatValue(response.Cost),
                Passed |-> response.Cost <= threshold,
                Score |-> <<0, 1>>,
                Message |-> <<"Cost: $%.4f (threshold: $%.4f)", response.Cost, threshold>>])

\* a rubric grader that passes every response
LLMRubricEvaluatePasses(assertion, response) ==
    EvalOK([ZeroAssertionResult EXCEPT
                !.Type = "llm-rubric", !.Passed = TRUE,
                !.Message = <<"LLM rubric evaluation not yet implemented">>])

LLMRubricEvaluate(assertion, response) ==
    EvalOK([ZeroAssertionResult EXCEPT
                !.Type = "llm-rubric", !.Passed = FALSE,
                !.Message = <<"LLM rubric evaluation not yet implemented">>])

ClosedQAEvaluate(assertion, response) ==
    EvalOK([ZeroAssertionResult EXCEPT
                !.Type = "closed-qa", !.Passed = FALSE,
                !.Message = <<"Closed-QA evaluation not yet implemented">>])

toxicKeywords == << <<"h", "a", "t", "e">>,
                    <<"v", "i", "o", "l", "e", "n", "c", "e">>,
                    <<"o", "f", "f", "e", "n", "s", "i", "v", "e">>,
                    <<"t", "o", "x", "i", "c">> >>

ToxicityEvaluate(assertion, response) ==
    LET text == ToLower(response.Text)
        hits == {i \in 1..Len(toxicKeywords) : Contains(text, toxicKeywords[i])}
    IN  IF hits # {}
        THEN LET first == CHOOSE i \in hits : \A j \in hits : i <= j
             IN  EvalOK([ZeroAssertionResult EXCEPT
                            !.Type = "toxicity", !.Passed = FALSE,
                            !.Message = <<"Toxic content detected: %s", toxicKeywords[first]>>])
        ELSE EvalOK([ZeroAssertionResult EXCEPT
                        !.Type = "toxicity", !.Passed = TRUE,
                        !.Message = <<"No toxic content detected">>])

JailbreakEvaluate(assertion, response) ==
    EvalOK([ZeroAssertionResult EXCEPT
                !.Type = "jailbreak", !.Passed = TRUE,
                !.Message = <<"Jailbreak detection not yet implemented">>])

UnsupportedEvaluate(type, assertion, response) ==
    EvalErr("unsupported assertion type: " \o type)


(***************************************************************************)
(* encoding/json, as far as json.Unmarshal decides whether a text is valid *)
(* JSON: objects, arrays, strings, integers and the three literals.        *)
(* String escapes, fractions and exponents are not modelled; the texts of  *)
(* the model hold no backslash, "." or exponent inside a brace region.     *)
(* A parser returns the index after what it parsed, 0 when it fails.       *)
(* A trailing comma is accepted by no step: after "," a key or a value      *)
(* must follow.                                                            *)
(***************************************************************************)
Quote == "\""
JSONSpace == {" ", "\t", "\n", "\r"}
JSONDigits == {"0", "1", "2", "3", "4", "5", "6", "7", "8", "9"}

RECURSIVE SkipWS(_, _)
SkipWS(t, i) == IF i <= Len(t) /\ t[i] \in JSONSpace THEN SkipWS(t, i + 1) ELSE i

\* the index of the quote closing the string opened at i, 0 if none
RECURSIVE StringEnd(_, _)
StringEnd(t, j) ==
    IF j > Len(t) \/ t[j] \in {"\\", "\n", "\t", "\r"} THEN 0
    ELSE IF t[j] = Quote THEN j
    ELSE StringEnd(t, j + 1)

ParseString(t, i) ==
    IF i <= Len(t) /\ t[i] = Quote
    THEN LET e == StringEnd(t, i + 1) IN IF e = 0 THEN 0 ELSE e + 1
    ELSE 0

RECURSIVE SkipDigits(_, _)
SkipDigits(t, i) == IF i <= Len(t) /\ t[i] \in JSONDigits THEN SkipDigits(t, i + 1) ELSE i

ParseNumber(t, i) ==
    LET d == IF i <= Len(t) /\ t[i] = "-" THEN i + 1 ELSE i
    IN  IF d > Len(t) \/ t[d] \notin JSONDigits THEN 0
        ELSE IF t[d] = "0" THEN d + 1
        ELSE SkipDigits(t, d)

ParseLiteral(t, i, lit) ==
    IF i + Len(lit) - 1 <= Len(t) /\ SubSeq(t, i, i + Len(lit) - 1) = lit
    THEN i + Len(lit)
    ELSE 0

\* a string, a number or a literal at i
ParseScalar(t, i) ==
    IF t[i] = Quote THEN ParseString(t, i)
    ELSE IF t[i] \in JSONDigits \cup {"-"} THEN ParseNumber(t, i)
    ELSE IF t[i] = "t" THEN ParseLiteral(t, i, <<"t", "r", "u", "e">>)
    ELSE IF t[i] = "f" THEN ParseLiteral(t, i, <<"f", "a", "l", "s", "e">>)
    ELSE IF t[i] = "n" THEN ParseLiteral(t, i, <<"n", "u", "l", "l">>)
    ELSE 0

\* The decoder's scanner: i is the next index, stack the open objects and
\* arrays (innermost first), expect what the grammar allows next, keys the
\* member names of the outermost object.
ScanStart == [i |-> 1, stack |-> <<>>, expect |-> "value", keys |-> {}]

ScanFail(c) == [c EXCEPT !.expect = "fail"]

\* one step of the scanner on text t, white space skipped first
ScanStep(t, c) ==
    LET j == SkipWS(t, c.i)
    IN  IF c.expect = "after" /\ c.stack = <<>>
        THEN IF j = Len(t) + 1 THEN [c EXCEPT !.expect = "ok"] ELSE ScanFail(c)
        ELSE IF j > Len(t) THEN ScanFail(c)
        ELSE IF c.expect \in {"value", "arrOpen"}
        THEN IF c.expect = "arrOpen" /\ t[j] = "]"
             THEN [c EXCEPT !.i = j + 1, !.stack = Tail(@), !.expect = "after"]
             ELSE IF t[j] = "{"
             THEN [c EXCEPT !.i = j + 1, !.stack = <<"{">> \o @, !.expect = "objOpen"]
             ELSE IF t[j] = "["
             THEN [c EXCEPT !.i = j + 1, !.stack = <<"[">> \o @, !.expect = "arrOpen"]
             ELSE LET e == ParseScalar(t, j)
                  IN  IF e = 0 THEN ScanFail(c)
                      ELSE [c EXCEPT !.i = e, !.expect = "after"]
        ELSE IF c.expect \in {"key", "objOpen"}
        THEN IF c.expect = "objOpen" /\ t[j] = "}"
             THEN [c EXCEPT !.i = j + 1, !.stack = Tail(@), !.expect = "after"]
             ELSE LET e == ParseString(t, j)
                  IN  IF e = 0 THEN ScanFail(c)
                      ELSE [c EXCEPT
                              !.i = e, !.expect = "colon",
                              !.keys = IF Len(c.stack) = 1
                                       THEN @ \cup {SubSeq(t, j + 1, e - 2)}
                                       ELSE @]
        ELSE IF c.expect = "colon"
        THEN IF t[j] = ":" THEN [c EXCEPT !.i = j + 1, !.expect = "value"]
             ELSE ScanFail(c)
        ELSE \* "after" inside an object or an array
             IF t[j] = "," /\ Head(c.stack) = "{"
             THEN [c EXCEPT !.i = j + 1, !.expect = "key"]
             ELSE IF t[j] = "," /\ Head(c.stack) = "["
             THEN [c EXCEPT !.i = j + 1, !.expect = "value"]
             ELSE IF (t[j] = "}" /\ Head(c.stack) = "{") \/ (t[j] = "]" /\ Head(c.stack) = "[")
             THEN [c EXCEPT !.i = j + 1, !.stack = Tail(@)]
             ELSE ScanFail(c)

RECURSIVE Scan(_, _)
Scan(t, c) == IF c.expect \in {"ok", "fail"} THEN c ELSE Scan(t, ScanStep(t, c))

\* json.Unmarshal(text, &parsed) == nil
ValidJSON(t) == Scan(t, ScanStart).expect = "ok"

\* the keys of the map json.Unmarshal builds from a valid object text
ObjectKeys(t) == Scan(t, ScanStart).keys

(***************************************************************************)
(* extractJSON: the matches of jsonRegex from left to right, without       *)
(* overlap; the first that is valid JSON.  jsonRegex matches an opening    *)
(* brace, characters other than braces, any number of groups (a brace      *)
(* pair around characters other than braces, then characters other than    *)
(* braces), and a closing brace.                                           *)
(***************************************************************************)
\* the index of the first brace at or after j, 0 if none
RECURSIVE NextBrace(_, _)
NextBrace(t, j) ==
    IF j > Len(t) THEN 0
    ELSE IF t[j] \in {"{", "}"} THEN j
    ELSE NextBrace(t, j + 1)

\* the end of the match that starts at the brace before pos, 0 if none
RECURSIVE RegionEnd(_, _)
RegionEnd(t, pos) ==
    LET k == NextBrace(t, pos)
    IN  IF k = 0 THEN 0
        ELSE IF t[k] = "}" THEN k
        ELSE LET k2 == NextBrace(t, k + 1)
             IN  IF k2 = 0 \/ t[k2] = "{" THEN 0 ELSE RegionEnd(t, k2 + 1)

\* jsonRegex.FindAllString(text, -1)
RECURSIVE FindAllFrom(_, _)
FindAllFrom(t, i) ==
    IF i > Len(t) THEN <<>>
    ELSE LET e == IF t[i] = "{" THEN RegionEnd(t, i + 1) ELSE 0
         IN  IF e # 0
             THEN <<SubSeq(t, i, e)>> \o FindAllFrom(t, e + 1)
             ELSE FindAllFrom(t, i + 1)

extractJSON(text) ==
    LET matches == FindAllFrom(text, 1)
        valid == {i \in 1..Len(matches) : ValidJSON(matches[i])}
    IN  IF valid = {} THEN <<>>
        ELSE matches[CHOOSE i \in valid : \A j \in valid : i <= j]

\* validateJSONSchema, data being the object parsed from jsonStr: the error
\* text, "" for nil.  The text names the first missing field.
validateJSONSchema(jsonStr, schema) ==
    IF schema.required.kind # "list" THEN <<>>
    ELSE LET req == schema.required.items
             missing == {i \in 1..Len(req) :
                            /\ req[i].kind = "string"
                            /\ req[i].s \notin ObjectKeys(jsonStr)}
         IN  IF missing = {} THEN <<>>
             ELSE <<"required field missing: %s",
                    req[CHOOSE i \in missing : \A j \in missing : i <= j].s>>

ContainsJSONEvaluate(assertion, response) ==
    LET jsonStr == extractJSON(response.Text)
        result == [ZeroAssertionResult EXCEPT
                     !.Type = "contains-json",
                     !.Expected = assertion.Value,
                     !.Actual = StringValue(jsonStr)]
    IN  IF jsonStr = <<>>
        THEN EvalOK([result EXCEPT !.Passed = FALSE,
                                   !.Message = <<"No JSON found in response">>])
        ELSE IF ~ValidJSON(jsonStr)
        THEN EvalOK([result EXCEPT !.Passed = FALSE, !.Message = <<"Invalid JSON: %v">>])
        ELSE LET err == IF assertion.Value.kind = "map"
                        THEN validateJSONSchema(jsonStr, assertion.Value)
                        ELSE <<>>
             IN  IF err # <<>>
                 THEN EvalOK([result EXCEPT
                                !.Passed = FALSE,
                                !.Message = <<"Schema validation failed: %v", err>>])
                 ELSE EvalOK([result EXCEPT !.Passed = TRUE,
                                            !.Message = <<"Valid JSON found">>])

(***************************************************************************)
(* NewEvaluator(assertionType).Evaluate(assertion, response)               *)
(***************************************************************************)
Evaluate(assertionType, assertion, response) ==
    CASE assertionType = "answer-relevance" -> AnswerRelevanceEvaluate(assertion, response)
      [] assertionType = "contains-json" -> ContainsJSONEvaluate(assertion, response)
      [] assertionType = "cost" -> CostEvaluate(assertion, response)
      [] assertionType = "llm-rubric" -> LLMRubricEvaluate(assertion, response)
      [] assertionType = "closed-qa" -> ClosedQAEvaluate(assertion, response)
      [] assertionType = "toxicity" -> ToxicityEvaluate(assertion, response)
      [] assertionType = "jailbreak" -> JailbreakEvaluate(assertion, response)
      [] OTHER -> UnsupportedEvaluate(assertionType, assertion, response)

(***************************************************************************)
(* Package config.                                                         *)
(***************************************************************************)
\* GetProvider falling back to a default provider for an id it does not know
GetProviderOrDefault(cfg, id) == TRUE

\* Config.GetProvider(id) returns a nil error
GetProvider(cfg, id) ==
    \E i \in 1..Len(cfg.Providers) : cfg.Providers[i].ID = id

(***************************************************************************)
(* Package runner: the functions of Run's pipeline.                        *)
(*                                                                         *)
(* What the file system, the template engine, the client factory and the  *)
(* provider do for one case is the case's environment: load, render and    *)
(* client say whether prompts.LoadFromFile, Prompt.Render and              *)
(* providers.NewClient succeed, complete is what Client.Complete returns   *)
(* (ok = FALSE for an error).                                              *)
(***************************************************************************)
\* loadPrompts: the err it returns is nil iff every file of config.Prompts
\* loads; loads[i] says whether the i-th does
loadPromptsOK(cfg, loads) == \A i \in 1..Len(cfg.Prompts) : loads[i]

\* the keys of the promptFiles map loadPrompts builds
loadPromptsFiles(cfg) == {cfg.Prompts[i] : i \in 1..Len(cfg.Prompts)}

\* the sequences that enumerate S once each: the orders in which a range
\* over a Go map may visit its keys
Orders(S) ==
    {o \in [1..Cardinality(S) -> S] : \A i, j \in 1..Cardinality(S) : o[i] = o[j] => i = j}

\* the TestCase of prompt file promptFile and test number i (from 0)
NewTestCase(cfg, promptFile, i) ==
    LET test == cfg.Tests[i + 1]
    IN  [Name |-> IF test.Name = ""
                  THEN promptFile \o "_test_" \o ToString(i)
                  ELSE test.Name,
         PromptFile |-> promptFile,
         Provider |-> IF test.Provider = "" /\ Len(cfg.Providers) > 0
                      THEN cfg.Providers[1].ID
                      ELSE test.Provider,
         Variables |-> test.Variables,
         Test |-> test]

\* generateTestCases, the range over promptFiles visiting the keys in order
generateTestCases(cfg, order) ==
    LET nt == Len(cfg.Tests)
    IN  [k \in 1..(Len(order) * nt) |->
            NewTestCase(cfg, order[((k - 1) \div nt) + 1], (k - 1) % nt)]

\* filterTestCases
filterTestCases(opts, cases) == cases

\* runAssertion whose error result carries no type
runAssertionUntyped(assertion, response) ==
    LET ev == Evaluate(assertion.Type, assertion, response)
    IN  IF ev.err # ""
        THEN [ZeroAssertionResult EXCEPT
                !.Passed = FALSE,
                !.Message = <<"Evaluation error: %v", ev.err>>]
        ELSE ev.res

\* runAssertion returning the evaluator's result without looking at err
runAssertionIgnoresErr(assertion, response) ==
    Evaluate(assertion.Type, assertion, response).res

runAssertion(assertion, response) ==
    LET ev == Evaluate(assertion.Type, assertion, response)
    IN  IF ev.err # ""
        THEN [ZeroAssertionResult EXCEPT
                !.Type = assertion.Type,
                !.Passed = FALSE,
                !.Message = <<"Evaluation error: %v", ev.err>>]
        ELSE ev.res

\* allPassed set by any passing assertion instead of cleared by any failing one
AnyPassed(assertions) ==
    Len(assertions) = 0 \/ \E i \in 1..Len(assertions) : assertions[i].Passed

\* the allPassed flag after runSingleTest's loop over the assertions
AllPassed(assertions) == \A i \in 1..Len(assertions) : assertions[i].Passed

\* a completion call made although the client could not be constructed
ReachesCompleteWithoutClient(cfg, testCase, env) ==
    env.load /\ env.render /\ GetProvider(cfg, testCase.Provider)

\* whether runSingleTest reaches client.Complete
ReachesComplete(cfg, testCase, env) ==
    env.load /\ env.render /\ GetProvider(cfg, testCase.Provider) /\ env.client

\* the stage at which the environment makes runSingleTest return: the first
\* collaborator that fails, the provider stage when no provider of the
\* configuration has the case's id, "assertions" when the completion succeeds
ExitStage(cfg, testCase, env) ==
    IF ~env.load THEN "load"
    ELSE IF ~env.render THEN "render"
    ELSE IF testCase.Provider \notin {cfg.Providers[j].ID : j \in 1..Len(cfg.Providers)}
    THEN "provider"
    ELSE IF ~env.client THEN "client"
    ELSE IF ~env.complete.ok THEN "complete"
    ELSE "assertions"

\* runSingleTest without the return of lines 374-378: a failed completion
\* call is recorded and the assertions are evaluated on an empty response
runSingleTestEvaluatesAfterFailure(cfg, testCase, env) ==
    LET result == [Name |-> testCase.Name,
                   PromptFile |-> testCase.PromptFile,
                   Provider |-> testCase.Provider,
                   Variables |-> testCase.Variables,
                   Response |-> <<>>,
                   Assertions |-> <<>>,
                   Cost |-> 0,
                   Status |-> "failed",
                   Error |-> ""]
    IN  IF ~env.load
        THEN [result EXCEPT !.Error = "Failed to load prompt: " \o testCase.PromptFile]
        ELSE IF ~env.render
        THEN [result EXCEPT !.Error = "Failed to render prompt: failed to render prompt"]
        ELSE IF ~GetProvider(cfg, testCase.Provider)
        THEN [result EXCEPT
                !.Error = "Provider not found: provider not found: " \o testCase.Provider]
        ELSE IF ~env.client
        THEN [result EXCEPT !.Error = "Failed to create provider client: " \o testCase.Provider]
        ELSE LET response == [Text |-> env.complete.Text, Cost |-> env.complete.Cost]
                 assertions == [i \in 1..Len(testCase.Test.assert) |->
                                   runAssertion(testCase.Test.assert[i], response)]
             IN  [result EXCEPT
                    !.Error = IF env.complete.ok THEN ""
                              ELSE "Failed to execute prompt: " \o testCase.Provider,
                    !.Response = response.Text,
                    !.Cost = response.Cost,
                    !.Assertions = assertions,
                    !.Status = IF env.complete.ok /\ AllPassed(assertions)
                               THEN "passed" ELSE "failed"]

runSingleTest(cfg, testCase, env) ==
    LET result == [Name |-> testCase.Name,
                   PromptFile |-> testCase.PromptFile,
                   Provider |-> testCase.Provider,
                   Variables |-> testCase.Variables,
                   Response |-> <<>>,
                   Assertions |-> <<>>,
                   Cost |-> 0,
                   Status |-> "failed",
                   Error |-> ""]
    IN  IF ~env.load
        THEN [result EXCEPT !.Error = "Failed to load prompt: " \o testCase.PromptFile]
        ELSE IF ~env.render
        THEN [result EXCEPT !.Error = "Failed to render prompt: failed to render prompt"]
        ELSE IF ~GetProvider(cfg, testCase.Provider)
        THEN [result EXCEPT
                !.Error = "Provider not found: provider not found: " \o testCase.Provider]
        ELSE IF ~env.client
        THEN [result EXCEPT !.Error = "Failed to create provider client: " \o testCase.Provider]
        ELSE IF ~env.complete.ok
        THEN [result EXCEPT !.Error = "Failed to execute prompt: " \o testCase.Provider]
        ELSE LET response == [Text |-> env.complete.Text, Cost |-> env.complete.Cost]
                 assertions == [i \in 1..Len(testCase.Test.assert) |->
                                   runAssertion(testCase.Test.assert[i], response)]
             IN  [result EXCEPT
                    !.Response = response.Text,
                    !.Cost = response.Cost,
                    !.Assertions = assertions,
                    !.Status = IF AllPassed(assertions) THEN "passed" ELSE "failed"]

\* the zero Results Run starts from
NewResults ==
    [Total |-> 0, Passed |-> 0, Failed |-> 0, Skipped |-> 0, TotalCost |-> 0,
     TestResults |-> <<>>]

\* the loop body counting the results that carry an error as skipped
FoldErroredAsSkipped(acc, r) ==
    [acc EXCEPT
        !.TestResults = Append(@, r),
        !.TotalCost = @ + r.Cost,
        !.Passed = IF r.Status = "passed" THEN @ + 1 ELSE @,
        !.Failed = IF r.Status = "failed" /\ r.Error = "" THEN @ + 1 ELSE @,
        !.Skipped = IF r.Status = "skipped" \/ r.Error # "" THEN @ + 1 ELSE @]

\* the loop body skipping the results that carry an error
FoldDropsErrored(acc, r) ==
    IF r.Error # "" THEN acc
    ELSE [acc EXCEPT
            !.TestResults = Append(@, r),
            !.TotalCost = @ + r.Cost,
            !.Passed = IF r.Status = "passed" THEN @ + 1 ELSE @,
            !.Failed = IF r.Status = "failed" THEN @ + 1 ELSE @,
            !.Skipped = IF r.Status = "skipped" THEN @ + 1 ELSE @]

\* the loop body with a switch that has no case for "failed"
FoldWithoutFailedCase(acc, r) ==
    [acc EXCEPT
        !.TestResults = Append(@, r),
        !.TotalCost = @ + r.Cost,
        !.Passed = IF r.Status = "passed" THEN @ + 1 ELSE @,
        !.Skipped = IF r.Status = "skipped" THEN @ + 1 ELSE @]

\* the loop body adding the cost inside the "passed" case only
FoldCostOfPassedOnly(acc, r) ==
    [acc EXCEPT
        !.TestResults = Append(@, r),
        !.TotalCost = IF r.Status = "passed" THEN @ + r.Cost ELSE @,
        !.Passed = IF r.Status = "passed" THEN @ + 1 ELSE @,
        !.Failed = IF r.Status = "failed" THEN @ + 1 ELSE @,
        !.Skipped = IF r.Status = "skipped" THEN @ + 1 ELSE @]

\* the body of Run's collection loop for one received result
Fold(acc, r) ==
    [acc EXCEPT
        !.TestResults = Append(@, r),
        !.TotalCost = @ + r.Cost,
        !.Passed = IF r.Status = "passed" THEN @ + 1 ELSE @,
        !.Failed = IF r.Status = "failed" THEN @ + 1 ELSE @,
        !.Skipped = IF r.Status = "skipped" THEN @ + 1 ELSE @]

\* a failure test that tolerates one failed case
HasFailuresBeyondOne(r) == r.Failed > 1

\* Results.HasFailures
HasFailures(r) == r.Failed > 0


(***************************************************************************)
(* The configurations, options and environments the model runs.            *)
(***************************************************************************)
\* the prompt files a configuration names (src/prompts)
PromptFileNames == {"prompts/invoice.prompt", "prompts/newsletter.prompt"}

\* the providers of the configuration
ConfiguredProviders == <<[ID |-> "openai:gpt-4o"], [ID |-> "openai:gpt-3.5-turbo"]>>

CostAssertion(threshold) ==
    [Type |-> "cost", Value |-> Nil, Threshold |-> threshold, Required |-> FALSE]

PlainAssertion(type) ==
    [Type |-> type, Value |-> Nil, Threshold |-> 0, Required |-> FALSE]

\* the test specs of the configuration, in the order it declares them: an
\* unnamed test on the default provider, a named test on a provider that is
\* not configured, and an unnamed test on a configured provider with two
\* assertions.  The list of assertions is field `assert`, the key of the
\* configuration file (config.Test, yaml:"assert").
DeclaredTests ==
    << [Name |-> "", Variables |-> "vars0", Provider |-> "",
        assert |-> <<CostAssertion(1)>>],
       [Name |-> "consistency-check", Variables |-> "vars1",
        Provider |-> "mistral:tiny",
        assert |-> <<CostAssertion(1)>>],
       [Name |-> "", Variables |-> "vars2",
        Provider |-> "openai:gpt-3.5-turbo",
        assert |-> <<PlainAssertion("jailbreak"), CostAssertion(1)>>] >>

\* n tests, declared in the cyclic order of DeclaredTests from its s-th
TestWindow(s, n) ==
    [i \in 1..n |-> DeclaredTests[((s + i - 2) % Len(DeclaredTests)) + 1]]

\* the prompt lists: one file, two files, one file matched by two patterns
PromptLists ==
    { <<"prompts/invoice.prompt">>,
      <<"prompts/invoice.prompt", "prompts/newsletter.prompt">>,
      <<"prompts/invoice.prompt", "prompts/invoice.prompt">> }

NewConfig(prompts, tests) ==
    [Prompts |-> prompts, Providers |-> ConfiguredProviders, Tests |-> tests]

\* the number of cases Run generates for a configuration
CaseCount(cfg) == Cardinality(loadPromptsFiles(cfg)) * Len(cfg.Tests)

\* what a provider answers
ResponseTexts == { <<"O", "K">> }

Completions ==
    {[ok |-> TRUE, Text |-> t, Cost |-> c] : t \in ResponseTexts, c \in 0..MaxCost}
    \cup {[ok |-> FALSE, Text |-> <<>>, Cost |-> 0]}

\* every environment of a case
Environments ==
    [load : BOOLEAN, render : BOOLEAN, client : BOOLEAN, complete : Completions]

\* the environments of a run in which no collaborator fails
ReliableEnvironments ==
    {e \in Environments : e.load /\ e.render /\ e.client /\ e.complete.ok /\ e.complete.Cost = 1}

\* the default of the test command's --parallel flag
DefaultParallel == 1

\* The runs of the model.  Pool runs: up to MaxCases cases under every
\* concurrency limit, the collaborators reliable.  Data runs: fewer cases
\* under the default limit, the collaborators free to fail in every way; a
\* configuration of several prompts has one test.
PoolRuns ==
    [config : {NewConfig(<<"prompts/invoice.prompt">>, TestWindow(1, n)) : n \in 1..MaxCases},
     options : [Parallel : (-1)..MaxParallel, Filters : {<<>>}, CIMode : {FALSE}],
     world : {ReliableEnvironments}]

DataRuns ==
    [config : {c \in {NewConfig(p, TestWindow(s, n)) :
                        p \in PromptLists, s \in 1..Len(DeclaredTests),
                        n \in 1..(MaxCases - 1)} :
                 /\ CaseCount(c) <= MaxCases - 1
                 /\ Len(c.Prompts) > 1 => Len(c.Tests) = 1},
     options : [Parallel : {DefaultParallel}, Filters : {<<>>}, CIMode : {FALSE}],
     world : {Environments}]

\* The response texts the evaluators are run on: OK; PRO PLAN; W {"a":1};
\* and {"a":{"b":{}}}, an object nested three deep.
TextOK == <<"O", "K">>
TextProPlan == <<"P", "R", "O", " ", "P", "L", "A", "N">>
TextWelcomeJSON == <<"W", " ", "{", Quote, "a", Quote, ":", "1", "}">>
TextNestedJSON ==
    <<"{", Quote, "a", Quote, ":", "{", Quote, "b", Quote, ":", "{", "}", "}", "}">>

EvaluatorTexts == {TextOK, TextProPlan, TextWelcomeJSON, TextNestedJSON}

RelevanceAssertion(value, threshold) ==
    [Type |-> "answer-relevance", Value |-> value, Threshold |-> threshold,
     Required |-> FALSE]

\* an assertion of a kind with a value and a threshold
ValuedAssertion(type, value, threshold) ==
    [Type |-> type, Value |-> value, Threshold |-> threshold, Required |-> FALSE]

\* a contains-json assertion whose value is a map with the "required" list
ContainsJSONAssertion(value) ==
    [Type |-> "contains-json", Value |-> value, Threshold |-> 0, Required |-> FALSE]

RequiredFields(names) ==
    MapValue(ListValue([i \in 1..Len(names) |-> StringValue(names[i])]))

\* The assertion lists the evaluators are run on: a kind that is not
\* registered; an answer-relevance value that is not a string; the keywords
\* "Pro plan" with no threshold; the keywords "a a b" with threshold 0.6;
\* contains-json with required field a, with required field b, with required
\* fields b and c, and with no value; a cost threshold of 0.0030; llm-rubric,
\* closed-qa and jailbreak with and without a value and a threshold.
EvaluatorAssertions ==
    { <<PlainAssertion("sentiment"), CostAssertion(6)>>,
      <<RelevanceAssertion(FloatValue(1), 0), CostAssertion(6)>>,
      <<RelevanceAssertion(StringValue(<<"P", "r", "o", " ", "p", "l", "a", "n">>), 0)>>,
      <<RelevanceAssertion(StringValue(<<"a", " ", "a", " ", "b">>), 60)>>,
      <<ContainsJSONAssertion(RequiredFields(<< <<"a">> >>))>>,
      <<ContainsJSONAssertion(RequiredFields(<< <<"b">> >>))>>,
      <<ContainsJSONAssertion(RequiredFields(<< <<"c">>, <<"b">> >>))>>,
      <<ContainsJSONAssertion(Nil)>>,
      <<CostAssertion(6)>>,
      <<PlainAssertion("llm-rubric")>>,
      <<ValuedAssertion("llm-rubric", StringValue(<<"O", "K">>), 60),
        PlainAssertion("jailbreak")>>,
      <<ValuedAssertion("closed-qa", StringValue(<<"O", "K">>), 0)>>,
      <<PlainAssertion("jailbreak"), PlainAssertion("closed-qa")>>,
      <<ValuedAssertion("jailbreak", StringValue(<<"O", "K">>), 60)>> }

\* the completions of the evaluator runs: every text at no cost, and the
\* costs 0.0030 and 0.0045
EvaluatorCompletions ==
    {[ok |-> TRUE, Text |-> t, Cost |-> 0] : t \in EvaluatorTexts}
    \cup {[ok |-> TRUE, Text |-> TextOK, Cost |-> c] : c \in {6, 9}}

EvaluatorEnvironments ==
    [load : {TRUE}, render : {TRUE}, client : {TRUE}, complete : EvaluatorCompletions]

\* Evaluator runs: one case with one of the assertion lists, answered by
\* one of the evaluator completions.
EvaluatorRuns ==
    [config : {NewConfig(<<"prompts/invoice.prompt">>,
                         <<[Name |-> "evaluators", Variables |-> "vars0",
                            Provider |-> "", assert |-> a]>>) :
                 a \in EvaluatorAssertions},
     options : [Parallel : {DefaultParallel}, Filters : {<<>>}, CIMode : {FALSE}],
     world : {EvaluatorEnvironments}]

\* Filter runs: the --filter flag of the test command names one case, or
\* no case at all.
FilterRuns ==
    [config : {NewConfig(<<"prompts/invoice.prompt">>, TestWindow(1, 2))},
     options : [Parallel : {DefaultParallel},
                Filters : {<<"consistency-check">>, <<"no-such-case">>},
                CIMode : {FALSE}],
     world : {ReliableEnvironments}]

\* the Parallel option runCI gives the runner
CIParallel == 4

\* the environments of a CI run: every collaborator works, and a completion
\* costs 0.0005 or 0.0010 USD
CIEnvironments ==
    {e \in Environments :
        e.load /\ e.render /\ e.client /\ e.complete.ok /\ e.complete.Cost \in {1, 2}}

\* CI runs: runCI's runner, on one or two cases of configured providers
CIRuns ==
    [config : {NewConfig(<<"prompts/invoice.prompt">>, TestWindow(3, n)) : n \in 1..2},
     options : [Parallel : {CIParallel}, Filters : {<<>>}, CIMode : {TRUE}],
     world : {CIEnvironments}]

(***************************************************************************)
(* Package diff: GenerateBaselineComparison.  The report is the sequence   *)
(* of its lines after the table header, each line a tuple that starts with *)
(* the text that identifies it.  Costs are in units of 0.0005 USD.         *)
(***************************************************************************)
\* formatChange
formatChange(change) ==
    IF change > 0 THEN <<"up", change>>
    ELSE IF change < 0 THEN <<"down", change>>
    ELSE <<"none", 0>>

\* formatCostChange: the limits +-0.0001 lie between 0 and one unit
formatCostChange(change) ==
    IF change > 0 THEN <<"up", change>>
    ELSE IF change < 0 THEN <<"down", -change>>
    ELSE <<"none", 0>>

\* the limit of line 195, 0.001, in units of 0.0005 USD
CostAlertLimit == 2

\* a cost alert on every increase, however small
SignificantCostIncreaseAny(costChange) == costChange > 0

\* line 195: costChange > 0.001
SignificantCostIncrease(costChange) == costChange > CostAlertLimit

\* a regression test that also fires on an equal number of failures
MoreFailingOrEqual(current, baseline) == current.Failed >= baseline.Failed

\* line 189: current.Failed > baseline.Failed
MoreFailing(current, baseline) == current.Failed > baseline.Failed

GenerateBaselineComparison(current, baseline) ==
    LET passedChange == current.Passed - baseline.Passed
        failedChange == current.Failed - baseline.Failed
        costChange == current.TotalCost - baseline.TotalCost
    IN  << <<"Passed", baseline.Passed, current.Passed, formatChange(passedChange)>>,
           <<"Failed", baseline.Failed, current.Failed, formatChange(failedChange)>>,
           <<"Cost", baseline.TotalCost, current.TotalCost, formatCostChange(costChange)>> >>
        \o (IF MoreFailing(current, baseline) THEN << <<"REGRESSION DETECTED">> >>
            ELSE IF current.Failed < baseline.Failed THEN << <<"IMPROVEMENT">> >>
            ELSE <<>>)
        \o (IF SignificantCostIncrease(costChange)
            THEN << <<"COST ALERT", costChange>> >>
            ELSE <<>>)

\* the baseline files of the model
BaselineFiles ==
    {[NewResults EXCEPT !.Total = 3, !.Passed = 3 - f, !.Failed = f, !.TotalCost = c] :
        f \in 0..2, c \in {0, 1, 5}}

Workers == 1..Len(wpc)

(***************************************************************************)
(* The state machine of one call of Runner.Run.                            *)
(***************************************************************************)
Init ==
    /\ \E run \in PoolRuns \cup DataRuns \cup EvaluatorRuns \cup FilterRuns \cup CIRuns :
          /\ config = run.config
          /\ options = run.options
          /\ world = run.world
    /\ runPc = "start"
    /\ promptFiles = {}
    /\ testCases = <<>>
    /\ wpc = <<>>
    /\ produced = <<>>
    /\ semaphore = 0
    /\ wg = 0
    /\ testResults = <<>>
    /\ closed = FALSE
    /\ results = NewResults
    /\ calls = <<>>
    /\ stage = <<>>
    /\ storeWarned = FALSE
    /\ baselineResults = NewResults
    /\ baselineComparison = <<>>
    /\ ciExit = ""

\* Run, lines 193-207: loadPrompts; an error ends Run with (nil, err)
LoadPrompts ==
    /\ runPc = "start"
    /\ \E loads \in [1..Len(config.Prompts) -> BOOLEAN] :
          IF loadPromptsOK(config, loads)
          THEN /\ promptFiles' = loadPromptsFiles(config)
               /\ runPc' = "loaded"
          ELSE /\ promptFiles' = promptFiles
               /\ runPc' = "error"
    /\ UNCHANGED <<config, options, testCases, wpc, produced, semaphore, wg,
                   testResults, closed, results, calls, stage, storeWarned, world,
                   baselineResults, baselineComparison, ciExit>>

\* whether make(chan struct{}, n) panics
MakeChanPanics(n) == n < 0

\* Run, lines 209-242: the cases are generated and filtered, the channels
\* made, and one goroutine per case started (wg.Add before each), then the
\* goroutine that waits and closes
Dispatch ==
    /\ runPc = "loaded"
    /\ \E order \in Orders(promptFiles) :
          LET generated == generateTestCases(config, order)
              cases == IF Len(options.Filters) > 0
                       THEN filterTestCases(options, generated)
                       ELSE generated
          IN  /\ testCases' = cases
              /\ results' = [results EXCEPT !.Total = Len(cases)]
              /\ IF MakeChanPanics(options.Parallel)
                 THEN /\ runPc' = "crashed"
                      /\ UNCHANGED <<wpc, produced, calls, stage, wg>>
                 ELSE /\ runPc' = "collecting"
                      /\ wpc' = [i \in 1..Len(cases) |-> "spawned"]
                      /\ produced' = [i \in 1..Len(cases) |-> NoResult]
                      /\ calls' = [i \in 1..Len(cases) |-> 0]
                      /\ stage' = [i \in 1..Len(cases) |-> ""]
                      /\ wg' = Len(cases)
    /\ UNCHANGED <<config, options, promptFiles, semaphore, testResults, closed,
                   storeWarned, world,
                   baselineResults, baselineComparison, ciExit>>

\* a send on an unbuffered semaphore that proceeds without a receiver
CanAcquireUnbuffered(held, limit) == held < limit \/ limit = 0

\* a semaphore that admits one sender too many
CanAcquireOneMore(held, limit) == held <= limit

\* a send on the semaphore channel can proceed
CanAcquire(held, limit) == held < limit

\* line 230: semaphore <- struct{}{}
Acquire(i) ==
    /\ runPc = "collecting"
    /\ i \in Workers
    /\ wpc[i] = "spawned"
    /\ CanAcquire(semaphore, options.Parallel)
    /\ semaphore' = semaphore + 1
    /\ wpc' = [wpc EXCEPT ![i] = "holding"]
    /\ UNCHANGED <<config, options, runPc, promptFiles, testCases, produced, wg,
                   testResults, closed, results, calls, stage, storeWarned, world,
                   baselineResults, baselineComparison, ciExit>>

\* line 233: result := r.runSingleTest(tc)
Execute(i) ==
    /\ runPc = "collecting"
    /\ i \in Workers
    /\ wpc[i] = "holding"
    /\ \E env \in world :
          /\ produced' = [produced EXCEPT ![i] = runSingleTest(config, testCases[i], env)]
          /\ calls' = [calls EXCEPT
                         ![i] = IF ReachesComplete(config, testCases[i], env)
                                THEN @ + 1 ELSE @]
          /\ stage' = [stage EXCEPT ![i] = ExitStage(config, testCases[i], env)]
    /\ wpc' = [wpc EXCEPT ![i] = "ready"]
    /\ UNCHANGED <<config, options, runPc, promptFiles, testCases, semaphore, wg,
                   testResults, closed, results, storeWarned, world,
                   baselineResults, baselineComparison, ciExit>>

\* a testResults channel that holds one result only, whatever its capacity
CanDeliverOne(buffered, capacity) == buffered < 1

\* a send on the testResults channel, made with capacity len(testCases),
\* can proceed
CanDeliver(buffered, capacity) == buffered < capacity

\* a worker that adds its result to the Results itself instead of sending it
DeliverFolds(i) ==
    /\ runPc = "collecting"
    /\ i \in Workers
    /\ wpc[i] = "ready"
    /\ results' = Fold(results, produced[i])
    /\ wpc' = [wpc EXCEPT ![i] = "delivered"]
    /\ UNCHANGED <<config, options, runPc, promptFiles, testCases, produced,
                   semaphore, wg, testResults, closed, calls, stage, storeWarned, world,
                   baselineResults, baselineComparison, ciExit>>

\* line 234: testResults <- result
Deliver(i) ==
    /\ runPc = "collecting"
    /\ i \in Workers
    /\ wpc[i] = "ready"
    /\ CanDeliver(Len(testResults), Len(testCases))
    /\ testResults' = Append(testResults, produced[i])
    /\ wpc' = [wpc EXCEPT ![i] = "delivered"]
    /\ UNCHANGED <<config, options, runPc, promptFiles, testCases, produced,
                   semaphore, wg, closed, results, calls, stage, storeWarned, world,
                   baselineResults, baselineComparison, ciExit>>

\* line 231, deferred: <-semaphore
Release(i) ==
    /\ runPc = "collecting"
    /\ i \in Workers
    /\ wpc[i] = "delivered"
    /\ semaphore > 0
    /\ semaphore' = semaphore - 1
    /\ wpc' = [wpc EXCEPT ![i] = "released"]
    /\ UNCHANGED <<config, options, runPc, promptFiles, testCases, produced, wg,
                   testResults, closed, results, calls, stage, storeWarned, world,
                   baselineResults, baselineComparison, ciExit>>

\* line 229, deferred: wg.Done()
Done(i) ==
    /\ runPc = "collecting"
    /\ i \in Workers
    /\ wpc[i] = "released"
    /\ wg' = wg - 1
    /\ wpc' = [wpc EXCEPT ![i] = "done"]
    /\ UNCHANGED <<config, options, runPc, promptFiles, testCases, produced,
                   semaphore, testResults, closed, results, calls, stage, storeWarned, world,
                   baselineResults, baselineComparison, ciExit>>

\* A panic inside runSingleTest.  The goroutine has no recover: its deferred
\* calls run (the slot is released, wg.Done is called) and the Go runtime
\* then ends the whole process.
Panic(i) ==
    /\ runPc = "collecting"
    /\ i \in Workers
    /\ wpc[i] = "holding"
    /\ semaphore' = semaphore - 1
    /\ wg' = wg - 1
    /\ wpc' = [wpc EXCEPT ![i] = "panicked"]
    /\ runPc' = "crashed"
    /\ UNCHANGED <<config, options, promptFiles, testCases, produced, testResults,
                   closed, results, calls, stage, storeWarned, world,
                   baselineResults, baselineComparison, ciExit>>

\* lines 239-242: wg.Wait() returns; close(testResults)
CloseResults ==
    /\ runPc = "collecting"
    /\ ~closed
    /\ wg = 0
    /\ closed' = TRUE
    /\ UNCHANGED <<config, options, runPc, promptFiles, testCases, wpc, produced,
                   semaphore, wg, testResults, results, calls, stage, storeWarned, world,
                   baselineResults, baselineComparison, ciExit>>

\* lines 245-257: one iteration of the range over testResults
Collect ==
    /\ runPc = "collecting"
    /\ testResults # <<>>
    /\ results' = Fold(results, Head(testResults))
    /\ testResults' = Tail(testResults)
    /\ UNCHANGED <<config, options, runPc, promptFiles, testCases, wpc, produced,
                   semaphore, wg, closed, calls, stage, storeWarned, world,
                   baselineResults, baselineComparison, ciExit>>

\* a collection loop that stops as soon as the channel is empty
RangeEndsWhenDrained(buffered, isClosed) == buffered = <<>>

\* the range over the channel ends: it is closed and drained
RangeEnds(buffered, isClosed) == isClosed /\ buffered = <<>>

\* lines 259-266: the loop has ended; metrics.Store (a failure only prints
\* a warning); return results, nil
Return ==
    /\ runPc = "collecting"
    /\ RangeEnds(testResults, closed)
    /\ \E storeOK \in BOOLEAN : storeWarned' = ~storeOK
    /\ runPc' = "returned"
    /\ UNCHANGED <<config, options, promptFiles, testCases, wpc, produced,
                   semaphore, wg, testResults, closed, results, calls, stage, world,
                   baselineResults, baselineComparison, ciExit>>

\* runDiff (cmd/diff.go, lines 34-59) on the results of the run: the
\* comparison is generated when the baseline file exists and loads
RunDiff ==
    /\ runPc = "returned"
    /\ \E loaded \in BOOLEAN :
          IF loaded
          THEN \E baseline \in BaselineFiles :
                  /\ baselineResults' = baseline
                  /\ baselineComparison' = GenerateBaselineComparison(results, baseline)
          ELSE UNCHANGED <<baselineResults, baselineComparison>>
    /\ runPc' = "compared"
    /\ UNCHANGED <<config, options, promptFiles, testCases, wpc, produced, semaphore,
                   wg, testResults, closed, results, calls, stage, storeWarned, world,
                   ciExit>>

\* runCI (cmd/ci.go) from the return of Run, lines 55-111.  An error of Run
\* is returned wrapped; so is a failure to create the artifacts directory.
\* The reports, the annotations and the badge only print warnings when they
\* fail.  The last test is results.HasFailures().
RunCI ==
    /\ options.CIMode
    /\ runPc \in {"returned", "error"}
    /\ \E mkdirOK \in BOOLEAN :
          ciExit' = IF runPc = "error" THEN "CI test execution failed"
                    ELSE IF ~mkdirOK THEN "failed to create artifacts directory"
                    ELSE IF HasFailures(results) THEN "tests failed"
                    ELSE "nil"
    /\ runPc' = "reported"
    /\ UNCHANGED <<config, options, promptFiles, testCases, wpc, produced, semaphore,
                   wg, testResults, closed, results, calls, stage, storeWarned, world,
                   baselineResults, baselineComparison>>

Next ==
    \/ LoadPrompts
    \/ Dispatch
    \/ \E i \in Workers : Acquire(i)
    \/ \E i \in Workers : Execute(i)
    \/ \E i \in Workers : Deliver(i)
    \/ \E i \in Workers : Release(i)
    \/ \E i \in Workers : Done(i)
    \/ \E i \in Workers : Panic(i)
    \/ CloseResults
    \/ Collect
    \/ Return
    \/ RunDiff
    \/ RunCI

Spec == Init /\ [][Next]_vars


(***************************************************************************)
(* Fairness: the Go scheduler runs every goroutine that can run, and a     *)
(* channel serves its blocked senders.  A panic is never owed.             *)
(***************************************************************************)
Fairness ==
    /\ WF_vars(LoadPrompts)
    /\ WF_vars(Dispatch)
    /\ \A i \in 1..MaxCases :
          /\ WF_vars(Acquire(i))
          /\ WF_vars(Execute(i))
          /\ WF_vars(Deliver(i))
          /\ WF_vars(Release(i))
          /\ WF_vars(Done(i))
    /\ WF_vars(CloseResults)
    /\ WF_vars(Collect)
    /\ WF_vars(Return)
    /\ WF_vars(RunDiff)
    /\ WF_vars(RunCI)

FairSpec == Init /\ [][Next]_vars /\ Fairness

(***************************************************************************)
(* Vocabulary of the properties.                                           *)
(***************************************************************************)
\* the cases that hold a slot: acquired and not yet released
InFlight == {i \in Workers : wpc[i] \in {"holding", "ready", "delivered"}}

\* the cases waiting for a slot
Waiting == {i \in Workers : wpc[i] = "spawned"}

\* what identifies the case of a TestCase or of a TestResult
Identity(r) == <<r.Name, r.PromptFile, r.Provider>>

\* how many times each identity occurs in a sequence
IdentityBag(seq) ==
    [x \in {Identity(seq[i]) : i \in 1..Len(seq)} |->
        Cardinality({i \in 1..Len(seq) : Identity(seq[i]) = x})]

\* the results with a status
CountStatus(seq, status) == Cardinality({i \in 1..Len(seq) : seq[i].Status = status})

RECURSIVE SumCost(_)
SumCost(seq) == IF seq = <<>> THEN 0 ELSE seq[1].Cost + SumCost(Tail(seq))

\* every TestResult the run holds: computed by a worker, in the channel, or
\* folded into the Results
Outcomes ==
    {produced[i] : i \in {j \in Workers : produced[j] # NoResult}}
    \cup {testResults[i] : i \in 1..Len(testResults)}
    \cup {results.TestResults[i] : i \in 1..Len(results.TestResults)}

Returned == runPc = "returned"

(***************************************************************************)
(* C1.  For N cases and a concurrency limit L >= 1, the Results that Run   *)
(* returns hold exactly N outcomes, one for each case (same name, prompt   *)
(* file and provider): none dropped, none twice.                           *)
(***************************************************************************)
C1_OneOutcomePerCase ==
    (Returned /\ options.Parallel >= 1) =>
        /\ Len(results.TestResults) = Len(testCases)
        /\ IdentityBag(results.TestResults) = IdentityBag(testCases)

\* Run has returned for three cases under limit 2 (1 < L < N)
C1_Witness ==
    Returned /\ Len(testCases) = 3 /\ options.Parallel = 2
    /\ Len(results.TestResults) = 3

(***************************************************************************)
(* C2.  With a limit L >= 1, at most L cases are in flight (hold a slot)   *)
(* in every reachable state.                                               *)
(***************************************************************************)
C2_InFlightWithinLimit ==
    options.Parallel >= 1 => Cardinality(InFlight) <= options.Parallel

\* the limit is reached while another case waits for a slot
C2_Witness ==
    /\ options.Parallel = 2
    /\ Cardinality(InFlight) = 2
    /\ Waiting # {}

(***************************************************************************)
(* C3.  When Run returns, every case has produced its outcome and the      *)
(* outcome is folded into the Results: no case waits for a slot, is in     *)
(* flight or holds an undelivered outcome, and the channel is empty.       *)
(***************************************************************************)
C3_ReturnsAfterAllFolded ==
    Returned =>
        /\ \A i \in Workers : wpc[i] \in {"released", "done"}
        /\ \A i \in Workers : wpc[i] = "done"
        /\ testResults = <<>>
        /\ \A i \in Workers :
              \E k \in 1..Len(results.TestResults) : results.TestResults[k] = produced[i]

\* Run has returned after running cases concurrently
C3_Witness == Returned /\ Len(testCases) >= 2 /\ options.Parallel >= 2

(***************************************************************************)
(* C4.  Fault isolation: a panic raised while one case executes does not   *)
(* crash the pool.                                                         *)
(***************************************************************************)
C4_FaultIsolation ==
    (\E i \in Workers : wpc[i] = "panicked") => runPc # "crashed"

(***************************************************************************)
(* C5.  With a limit L >= 1, every case that waits for a slot eventually   *)
(* acquires one, whatever happens to the cases that hold the slots (normal *)
(* completion, an early error return, a panic).                            *)
(***************************************************************************)
C5_WaitingEventuallyAcquires ==
    \A i \in 1..MaxCases :
        (options.Parallel >= 1 /\ i \in Waiting) ~> (i \notin Waiting)

(***************************************************************************)
(* C6.  A case for which prompt loading, rendering, provider resolution    *)
(* (the provider is not configured), client construction or the completion *)
(* call fails yields an outcome with status failed and a non-empty error;  *)
(* when Run returns, every case of the batch has its own outcome in the    *)
(* Results.                                                                *)
(***************************************************************************)
FailureStages == {"load", "render", "provider", "client", "complete"}

C6_FailureBecomesFailedOutcome ==
    /\ \A i \in Workers :
          stage[i] \in FailureStages =>
              produced[i].Status = "failed" /\ produced[i].Error # ""
    /\ Returned =>
          \A i \in Workers :
              \E k \in 1..Len(results.TestResults) : results.TestResults[k] = produced[i]

\* Run has returned: one case named a provider that is not configured and
\* failed, and a sibling passed
C6_Witness ==
    /\ Returned
    /\ \E i, j \in Workers :
          /\ stage[i] = "provider"
          /\ produced[i].Status = "failed"
          /\ produced[j].Status = "passed"

(***************************************************************************)
(* C7.  Run never returns an error in place of a Results value.            *)
(***************************************************************************)
C7_NeverReturnsError == runPc # "error"

(***************************************************************************)
(* C8.  For every outcome: status = passed iff its error is empty and      *)
(* every assertion outcome in it passed; otherwise status = failed.        *)
(***************************************************************************)
C8_PassedIffNoErrorAndAllPassed ==
    \A r \in Outcomes :
        /\ r.Status \in {"passed", "failed"}
        /\ r.Status = "passed" <=>
              (r.Error = "" /\ \A k \in 1..Len(r.Assertions) : r.Assertions[k].Passed)

\* an outcome without error fails on one of its two assertions while the
\* other assertion passed
C8_Witness ==
    \E r \in Outcomes :
        /\ r.Error = ""
        /\ r.Status = "failed"
        /\ \E k \in 1..Len(r.Assertions) : r.Assertions[k].Passed
        /\ \E k \in 1..Len(r.Assertions) : ~r.Assertions[k].Passed

(***************************************************************************)
(* C9.  In the Results that Run returns, total = passed + failed +         *)
(* skipped, total is the length of testResults, and each counter is the    *)
(* number of outcomes with that status.                                    *)
(***************************************************************************)
C9_TotalsPartitionOutcomes ==
    Returned =>
        /\ results.Total = results.Passed + results.Failed + results.Skipped
        /\ results.Total = Len(results.TestResults)
        /\ results.Passed = CountStatus(results.TestResults, "passed")
        /\ results.Failed = CountStatus(results.TestResults, "failed")
        /\ results.Skipped = CountStatus(results.TestResults, "skipped")

\* Run has returned passed and failed outcomes
C9_Witness == Returned /\ results.Passed >= 1 /\ results.Failed >= 1

(***************************************************************************)
(* C10.  In the Results that Run returns, totalCost is the sum of the      *)
(* costs of the outcomes in testResults, and is not negative.              *)
(***************************************************************************)
C10_TotalCostIsSum ==
    Returned =>
        /\ results.TotalCost = SumCost(results.TestResults)
        /\ results.TotalCost >= 0

\* Run has returned a failed outcome with a cost and another outcome with a cost
C10_Witness ==
    /\ Returned
    /\ \E i, j \in 1..Len(results.TestResults) :
          /\ i # j
          /\ results.TestResults[i].Cost > 0
          /\ results.TestResults[i].Status = "failed"
          /\ results.TestResults[j].Cost > 0


(***************************************************************************)
(* C11.  Aggregation does not depend on the arrival order: the Results Run *)
(* builds (counters, totalCost and the testResults sequence) are the same  *)
(* for every order in which the workers deliver a given multiset of        *)
(* outcomes; so they are what the delivery in case order builds.           *)
(***************************************************************************)
\* the collection loop run on a sequence of received results
RECURSIVE Aggregate(_, _)
Aggregate(acc, received) ==
    IF received = <<>> THEN acc
    ELSE Aggregate(Fold(acc, Head(received)), Tail(received))

C11_AggregationIgnoresArrivalOrder ==
    Returned => results = Aggregate([NewResults EXCEPT !.Total = Len(testCases)], produced)

(***************************************************************************)
(* C12.  For an assertion whose kind is not registered, the outcome of the *)
(* case holds, at the place of that assertion, an assertion outcome with   *)
(* passed = false, the unknown kind as type and a message naming the kind; *)
(* no assertion is omitted and the status of the case is failed.           *)
(***************************************************************************)
RegisteredKinds ==
    {"answer-relevance", "contains-json", "cost", "llm-rubric", "closed-qa",
     "toxicity", "jailbreak"}

\* the cases whose execution reached the assertions
Evaluated == {i \in Workers : stage[i] = "assertions"}

\* the assertion specs of case i
Asserts(i) == testCases[i].Test.assert

C12_UnknownKindFails ==
    \A i \in Evaluated :
        /\ Len(produced[i].Assertions) = Len(Asserts(i))
        /\ \A k \in 1..Len(Asserts(i)) :
              Asserts(i)[k].Type \notin RegisteredKinds =>
                  /\ produced[i].Assertions[k].Type = Asserts(i)[k].Type
                  /\ ~produced[i].Assertions[k].Passed
                  /\ produced[i].Assertions[k].Message =
                        <<"Evaluation error: %v",
                          "unsupported assertion type: " \o Asserts(i)[k].Type>>
                  /\ produced[i].Status = "failed"

\* Run has returned the outcome of a case with an assertion of kind
\* sentiment, followed by a cost assertion that passed
C12_Witness ==
    /\ Returned
    /\ \E i \in Evaluated :
          /\ Asserts(i)[1].Type = "sentiment"
          /\ produced[i].Assertions[2].Type = "cost"
          /\ produced[i].Assertions[2].Passed

(***************************************************************************)
(* C13.  When an evaluator reports an error for malformed input (an        *)
(* answer-relevance value that is not a string), the assertion outcome has *)
(* passed = false and a message carrying the error text; the other         *)
(* assertions of the case are evaluated all the same, and Run returns one  *)
(* outcome for each case.                                                  *)
(***************************************************************************)
C13_EvaluatorErrorBecomesFailure ==
    /\ \A i \in Evaluated :
          /\ Len(produced[i].Assertions) = Len(Asserts(i))
          /\ \A k \in 1..Len(Asserts(i)) :
                /\ (Asserts(i)[k].Type = "answer-relevance"
                      /\ Asserts(i)[k].Value.kind # "string") =>
                      /\ ~produced[i].Assertions[k].Passed
                      /\ produced[i].Assertions[k].Message =
                            <<"Evaluation error: %v",
                              "answer-relevance assertion value must be a string">>
                /\ Asserts(i)[k].Type = "cost" =>
                      produced[i].Assertions[k].Type = "cost"
    /\ Returned => Len(results.TestResults) = Len(testCases)

\* Run has returned the outcome of a case whose answer-relevance value is
\* a number; the cost assertion after it was evaluated and passed
C13_Witness ==
    /\ Returned
    /\ \E i \in Evaluated :
          /\ Asserts(i)[1].Type = "answer-relevance"
          /\ Asserts(i)[1].Value.kind = "float"
          /\ produced[i].Status = "failed"
          /\ produced[i].Assertions[2].Passed
          /\ results.TestResults = <<produced[i]>>

(***************************************************************************)
(* C14.  generateTestCases returns one case for each (prompt, test) pair,  *)
(* |prompts| x |tests| cases, in the declaration order of the prompts and, *)
(* within a prompt, of the tests; the same order on every run.             *)
(***************************************************************************)
Dispatched == runPc \in {"collecting", "returned", "compared"}

C14_CrossProductInDeclarationOrder ==
    Dispatched =>
        /\ Len(testCases) = Len(config.Prompts) * Len(config.Tests)
        /\ \A p \in 1..Len(config.Prompts), k \in 1..Len(config.Tests) :
              LET c == testCases[(p - 1) * Len(config.Tests) + k]
              IN  c.PromptFile = config.Prompts[p] /\ c.Test = config.Tests[k]

(***************************************************************************)
(* C15.  With name filters, every generated case whose name matches no     *)
(* filter pattern is removed before dispatch: no completion call is made   *)
(* for it, it has no outcome and it does not count in total; when no case  *)
(* matches, Run returns an empty Results (total 0, no outcome).            *)
(***************************************************************************)
\* The patterns of the model are a complete case name or a text that no
\* case name contains: a glob match, a substring match and equality agree.
NameMatches(name, pattern) == name = pattern

MatchesSomeFilter(name) ==
    \E f \in 1..Len(options.Filters) : NameMatches(name, options.Filters[f])

C15_FiltersRemoveCases ==
    (Dispatched /\ Len(options.Filters) > 0) =>
        /\ \A i \in 1..Len(testCases) : MatchesSomeFilter(testCases[i].Name)
        /\ results.Total = Cardinality({i \in 1..Len(testCases) :
                                           MatchesSomeFilter(testCases[i].Name)})
        /\ \A i \in Workers : ~MatchesSomeFilter(testCases[i].Name) => calls[i] = 0


(***************************************************************************)
(* C16.  The answer-relevance evaluator computes score = (distinct         *)
(* expected keywords that occur, letter case ignored, as substrings of the *)
(* response) / (distinct expected keywords), takes threshold 0.7 when the  *)
(* spec sets none, and passes iff score >= threshold.                      *)
(***************************************************************************)
\* the distinct keywords of an expected text, in lower case
Keywords(expected) ==
    LET words == Fields(ToLower(expected)) IN {words[i] : i \in 1..Len(words)}

\* the keywords that occur in a response text
KeywordsFound(expected, text) ==
    {w \in Keywords(expected) : Contains(ToLower(text), w)}

C16_RelevanceOverDistinctKeywords ==
    \A i \in Evaluated :
        \A k \in 1..Len(Asserts(i)) :
            (Asserts(i)[k].Type = "answer-relevance"
               /\ Asserts(i)[k].Value.kind = "string") =>
                LET all == Cardinality(Keywords(Asserts(i)[k].Value.s))
                    found == Cardinality(KeywordsFound(Asserts(i)[k].Value.s,
                                                       produced[i].Response))
                    threshold == IF Asserts(i)[k].Threshold = 0 THEN 70
                                 ELSE Asserts(i)[k].Threshold
                    out == produced[i].Assertions[k]
                IN  /\ out.Score[1] * all = found * out.Score[2]
                    /\ out.Passed <=> (found * 100 >= threshold * all)

(***************************************************************************)
(* C17.  The contains-json evaluator takes the first balanced-brace region *)
(* of the response that parses as valid JSON, at any nesting depth; it     *)
(* fails with "No JSON found" when there is none; with a list of required  *)
(* fields it passes iff that JSON is an object holding every listed key,   *)
(* and otherwise fails with a message naming the first missing key of the  *)
(* list.                                                                   *)
(***************************************************************************)
\* the index of the brace that closes the one opened before j, 0 if none
RECURSIVE ClosingBrace(_, _, _)
ClosingBrace(t, j, depth) ==
    IF j > Len(t) THEN 0
    ELSE IF t[j] = "{" THEN ClosingBrace(t, j + 1, depth + 1)
    ELSE IF t[j] = "}"
         THEN IF depth = 0 THEN j ELSE ClosingBrace(t, j + 1, depth - 1)
    ELSE ClosingBrace(t, j + 1, depth)

\* the starts of the balanced-brace regions that are valid JSON
BalancedJSONStarts(t) ==
    {i \in 1..Len(t) :
        /\ t[i] = "{"
        /\ ClosingBrace(t, i + 1, 0) # 0
        /\ ValidJSON(SubSeq(t, i, ClosingBrace(t, i + 1, 0)))}

\* the first balanced-brace region that is valid JSON, <<>> if none
FirstBalancedJSON(t) ==
    IF BalancedJSONStarts(t) = {} THEN <<>>
    ELSE LET i == CHOOSE i \in BalancedJSONStarts(t) :
                      \A j \in BalancedJSONStarts(t) : i <= j
         IN  SubSeq(t, i, ClosingBrace(t, i + 1, 0))

\* the required field names of a contains-json assertion, <<>> if none
RequiredOf(assertion) ==
    IF assertion.Value.kind = "map" /\ assertion.Value.required.kind = "list"
    THEN [n \in 1..Len(assertion.Value.required.items) |->
             assertion.Value.required.items[n].s]
    ELSE <<>>

C17_FirstBalancedJSONAndRequiredFields ==
    \A i \in Evaluated :
        \A k \in 1..Len(Asserts(i)) :
            Asserts(i)[k].Type = "contains-json" =>
                LET json == FirstBalancedJSON(produced[i].Response)
                    required == RequiredOf(Asserts(i)[k])
                    missing == {n \in 1..Len(required) : required[n] \notin ObjectKeys(json)}
                    out == produced[i].Assertions[k]
                IN  IF json = <<>>
                    THEN ~out.Passed /\ out.Message = <<"No JSON found in response">>
                    ELSE /\ out.Passed <=> missing = {}
                         /\ ~out.Passed =>
                               out.Message =
                                  <<"Schema validation failed: %v",
                                    <<"required field missing: %s",
                                      required[CHOOSE n \in missing :
                                                  \A m \in missing : n <= m]>> >>

(***************************************************************************)
(* C18.  The cost evaluator passes iff the cost of the response is at most *)
(* the threshold of the spec (an equal cost passes), for every cost >= 0   *)
(* and threshold > 0; cost 0.0045 against threshold 0.0030 fails.          *)
(***************************************************************************)
C18_CostPassesIffWithinThreshold ==
    \A i \in Evaluated :
        \A k \in 1..Len(Asserts(i)) :
            Asserts(i)[k].Type = "cost" =>
                /\ Asserts(i)[k].Threshold > 0 /\ produced[i].Cost >= 0
                /\ produced[i].Assertions[k].Passed <=>
                      (produced[i].Cost <= Asserts(i)[k].Threshold)

\* in one run a cost equal to the threshold has passed and a cost above
\* the threshold has failed
C18_Witness ==
    \E i, j \in Evaluated :
        \E k \in 1..Len(Asserts(i)), m \in 1..Len(Asserts(j)) :
            /\ Asserts(i)[k].Type = "cost" /\ Asserts(j)[m].Type = "cost"
            /\ produced[i].Cost = Asserts(i)[k].Threshold
            /\ produced[i].Assertions[k].Passed
            /\ produced[j].Cost > Asserts(j)[m].Threshold
            /\ ~produced[j].Assertions[m].Passed


(***************************************************************************)
(* C19.  The baseline comparison reports exactly one classification:       *)
(* regression iff current.failed > baseline.failed, improvement iff        *)
(* current.failed < baseline.failed, neutral (neither line) iff they are   *)
(* equal.                                                                  *)
(***************************************************************************)
\* runDiff has generated the comparison of the run's results with a baseline
Compared == runPc = "compared" /\ baselineComparison # <<>>

HasLine(report, text) == \E n \in 1..Len(report) : report[n][1] = text

ReportsRegression == HasLine(baselineComparison, "REGRESSION DETECTED")
ReportsImprovement == HasLine(baselineComparison, "IMPROVEMENT")
ReportsNeutral == ~ReportsRegression /\ ~ReportsImprovement
ReportsCostAlert == HasLine(baselineComparison, "COST ALERT")

C19_OneClassification ==
    Compared =>
        /\ ReportsRegression <=> results.Failed > baselineResults.Failed
        /\ ReportsImprovement <=> results.Failed < baselineResults.Failed
        /\ ReportsNeutral <=> results.Failed = baselineResults.Failed
        /\ ~(ReportsRegression /\ ReportsImprovement)

\* two failures against a baseline without failures: a regression
C19_Witness ==
    /\ Compared
    /\ results.Failed = 2 /\ baselineResults.Failed = 0
    /\ ReportsRegression

(***************************************************************************)
(* C20.  As claimed: the baseline comparison emits the cost alert exactly  *)
(* when the absolute value of current.totalCost - baseline.totalCost       *)
(* exceeds the limit 0.001, for decreases as well as for increases.        *)
(***************************************************************************)
CostChange == results.TotalCost - baselineResults.TotalCost

C20_AlertOnAbsoluteDelta ==
    Compared =>
        (ReportsCostAlert <=>
            (CostChange > CostAlertLimit \/ -CostChange > CostAlertLimit))

(***************************************************************************)
(* C20, amended.  The baseline comparison emits the cost alert exactly     *)
(* when current.totalCost - baseline.totalCost exceeds the limit 0.001:    *)
(* for an increase above the limit, never for an increase at or below the  *)
(* limit and never for a decrease.                                         *)
(***************************************************************************)
C20_AlertOnIncreaseOnly ==
    Compared =>
        /\ ReportsCostAlert <=> CostChange > CostAlertLimit
        /\ CostChange <= 0 => ~ReportsCostAlert

\* an increase above the limit has raised the alert
C20_Witness ==
    Compared /\ CostChange = CostAlertLimit + 1 /\ ReportsCostAlert

\* runCI has returned
Reported == runPc = "reported"

(***************************************************************************)
(* C21, as stated.  For every baseline with fewer failures than the        *)
(* current run, runCI ends with the "tests failed" error; and runCI ends   *)
(* in failure iff the Results of the current run have Failed > 0.          *)
(***************************************************************************)
C21_FailsIffFailedTests ==
    (Reported /\ ciExit # "CI test execution failed") =>
        /\ \A baseline \in BaselineFiles :
              MoreFailing(results, baseline) => ciExit = "tests failed"
        /\ ciExit # "nil" <=> results.Failed > 0

(***************************************************************************)
(* C21, amended.  Once Run has returned its Results, runCI ends in failure *)
(* iff Failed > 0 or the artifacts directory cannot be created: with the   *)
(* "tests failed" error iff the directory was created and Failed > 0.  So  *)
(* for every baseline with fewer failures than the current run, runCI ends *)
(* in failure.                                                             *)
(***************************************************************************)
C21_FailsOnFailedTestsOrArtifacts ==
    (Reported /\ ciExit # "CI test execution failed") =>
        /\ ciExit \in {"nil", "tests failed", "failed to create artifacts directory"}
        /\ results.Failed > 0 => ciExit # "nil"
        /\ results.Failed = 0 => ciExit # "tests failed"
        /\ \A baseline \in BaselineFiles :
              MoreFailing(results, baseline) => ciExit # "nil"

\* runCI ends with "tests failed" on one failed case out of two
C21_Witness ==
    Reported /\ ciExit = "tests failed" /\ results.Failed = 1 /\ results.Passed = 1

(***************************************************************************)
(* C22.  No assertion is evaluated for a case whose completion call did    *)
(* not return successfully: an outcome with an error has no assertion      *)
(* outcomes, an empty response and cost 0, and its case never reached the  *)
(* evaluation of the assertions.                                           *)
(***************************************************************************)
C22_NoAssertionsAfterError ==
    /\ \A r \in Outcomes :
          r.Error # "" => r.Assertions = <<>> /\ r.Response = <<>> /\ r.Cost = 0
    /\ \A i \in Workers :
          produced[i] # NoResult =>
              /\ produced[i].Error # "" <=> stage[i] \in FailureStages
              /\ stage[i] \in FailureStages => produced[i].Assertions = <<>>

\* a case with an assertion spec whose completion call failed, folded into
\* the Results
C22_Witness ==
    \E i \in Workers :
        /\ stage[i] = "complete"
        /\ Len(Asserts(i)) >= 1
        /\ produced[i].Error # ""
        /\ \E k \in 1..Len(results.TestResults) : results.TestResults[k] = produced[i]

\* the worker has come back from runSingleTest
Executed(i) == wpc[i] \in {"ready", "delivered", "released", "done"}

C24_OnlyCollectorWritesResults ==
    [][/\ results' = results
          \/ ~(\E i \in Workers : Acquire(i) \/ Execute(i) \/ Deliver(i)
                                    \/ Release(i) \/ Done(i) \/ Panic(i))
       /\ results' = results \/ Dispatch \/ Collect]_vars

\* the collector has folded an outcome while a worker is between its
\* acquire and its release
C24_Witness ==
    /\ results.TestResults # <<>>
    /\ \E i \in Workers : wpc[i] \in {"holding", "ready"}

\* the assertion outcomes match the assertion specs of case i: as many, and
\* the k-th outcome has the kind of the k-th spec
OnePerSpec(i) ==
    /\ Len(produced[i].Assertions) = Len(Asserts(i))
    /\ \A k \in 1..Len(Asserts(i)) : produced[i].Assertions[k].Type = Asserts(i)[k].Type

(***************************************************************************)
(* C25, as stated.  The assertion list of every outcome holds one          *)
(* assertion outcome per assertion spec of its case, in the order of the   *)
(* specs, each with the kind of its spec.                                  *)
(***************************************************************************)
C25_OneAssertionOutcomePerSpec ==
    \A i \in Workers : produced[i] # NoResult => OnePerSpec(i)

(***************************************************************************)
(* C25, amended.  The assertion list of every outcome without error holds  *)
(* one assertion outcome per assertion spec of its case, in the order of   *)
(* the specs, each with the kind of its spec; the assertion list of an     *)
(* outcome with an error is empty.                                         *)
(***************************************************************************)
C25_OnePerSpecUnlessError ==
    \A i \in Workers :
        produced[i] # NoResult =>
            IF produced[i].Error = ""
            THEN OnePerSpec(i)
            ELSE produced[i].Assertions = <<>>

\* an outcome without error for a case with two assertion specs of
\* different kinds, the first of them failed by an evaluator error
C25_Witness ==
    \E i \in Workers :
        /\ produced[i] # NoResult
        /\ produced[i].Error = ""
        /\ Len(Asserts(i)) = 2
        /\ Asserts(i)[1].Type # Asserts(i)[2].Type
        /\ produced[i].Assertions[1].Type = "answer-relevance"
        /\ produced[i].Assertions[1].Message # ZeroAssertionResult.Message
        /\ ~produced[i].Assertions[1].Passed

\* Run has come back to its caller
RunReturned == runPc \in {"returned", "compared"} \/ (Reported /\ testCases # <<>>)

(***************************************************************************)
(* C26.  With concurrency limit 0 and at least one case, no worker ever    *)
(* acquires a slot, no outcome is delivered and Run never returns.  Run    *)
(* returns for a non-empty case list only when the limit is at least 1 and *)
(* every case has come back from its execution.                            *)
(***************************************************************************)
C26_ZeroLimitNeverReturns ==
    /\ (options.Parallel = 0 /\ Len(testCases) >= 1) =>
          /\ \A i \in Workers : wpc[i] = "spawned"
          /\ semaphore = 0
          /\ testResults = <<>> /\ results.TestResults = <<>>
          /\ ~closed
          /\ runPc = "collecting"
    /\ (RunReturned /\ Len(testCases) >= 1) =>
          /\ options.Parallel >= 1
          /\ \A i \in Workers : Executed(i)

\* three workers wait for a slot of a semaphore of limit 0
C26_Witness ==
    /\ options.Parallel = 0
    /\ runPc = "collecting"
    /\ Len(testCases) = 3
    /\ \A i \in Workers : wpc[i] = "spawned"

(***************************************************************************)
(* C27.  When Run returns no slot is held and every worker has ended.  A   *)
(* worker that holds its outcome can always deliver it (the channel has    *)
(* room for one outcome per case), and a worker that has delivered can     *)
(* always release its slot, whatever the collector has done.               *)
(***************************************************************************)
C27_WorkersNeverBlockOnDelivery ==
    /\ Returned =>
          /\ semaphore = 0
          /\ wg = 0
          /\ \A i \in Workers : wpc[i] = "done"
    /\ \A i \in Workers :
          runPc = "collecting" =>
              /\ wpc[i] = "ready" => ENABLED Deliver(i)
              /\ wpc[i] = "delivered" => ENABLED Release(i)

\* a worker holds its outcome while two outcomes wait in the channel and
\* the collector has folded none
C27_Witness ==
    /\ runPc = "collecting"
    /\ Len(testResults) = 2
    /\ results.TestResults = <<>>
    /\ \E i \in Workers : wpc[i] = "ready"

(***************************************************************************)
(* C28.  Any two distinct generated test cases of a run have distinct      *)
(* names, also when a test spec has an explicit name and more than one     *)
(* prompt is configured.                                                   *)
(***************************************************************************)
C28_DistinctCaseNames ==
    Dispatched =>
        \A i, j \in 1..Len(testCases) :
            i # j => testCases[i].Name # testCases[j].Name

\* the assertion specs of case i of a kind
SpecsOfKind(i, kind) == {k \in 1..Len(Asserts(i)) : Asserts(i)[k].Type = kind}

(***************************************************************************)
(* C29.  Whatever the assertion spec and the response, an llm-rubric or a  *)
(* closed-qa assertion is evaluated to passed = false and a jailbreak      *)
(* assertion to passed = true; so a case with an llm-rubric or a closed-qa *)
(* assertion never gets status passed.                                     *)
(***************************************************************************)
C29_StubVerdictsAreConstant ==
    \A i \in Workers :
        /\ i \in Evaluated =>
              /\ \A k \in SpecsOfKind(i, "llm-rubric") \cup SpecsOfKind(i, "closed-qa") :
                    ~produced[i].Assertions[k].Passed
              /\ \A k \in SpecsOfKind(i, "jailbreak") : produced[i].Assertions[k].Passed
        /\ (produced[i] # NoResult
            /\ SpecsOfKind(i, "llm-rubric") \cup SpecsOfKind(i, "closed-qa") # {}) =>
              produced[i].Status = "failed"

\* a case whose llm-rubric assertion has the response as its value and
\* whose jailbreak assertion passed: the case failed
C29_Witness ==
    \E i \in Evaluated :
        /\ SpecsOfKind(i, "llm-rubric") = {1}
        /\ Asserts(i)[1].Value = StringValue(produced[i].Response)
        /\ ~produced[i].Assertions[1].Passed
        /\ produced[i].Assertions[2].Passed
        /\ produced[i].Status = "failed"

(***************************************************************************)
(* C30.  Every outcome of Run has status passed or failed; so the Results  *)
(* Run returns have Skipped = 0 and Total = Passed + Failed.               *)
(***************************************************************************)
C30_StatusPassedOrFailed ==
    /\ \A r \in Outcomes : r.Status \in {"passed", "failed"}
    /\ Returned =>
          /\ results.Skipped = 0
          /\ results.Total = results.Passed + results.Failed

\* Run has returned an outcome with an error beside a passed outcome
C30_Witness ==
    /\ Returned
    /\ results.Passed >= 1
    /\ \E k \in 1..Len(results.TestResults) : results.TestResults[k].Error # ""

=============================================================================
